---- MODULE Spec2Model ----
(***************************************************************************)
(* whenchange: watch files and directories, debounce the change events per *)
(* path and run a shell command.  Two revisions of the program are in the  *)
(* sources and both are modelled:                                          *)
(*   "glob"  src/unnamed/part_000 lines 1-255  (patterns, -p is a glob)    *)
(*   "path"  src/whenchange.go                 (path list, no glob)        *)
(* A path is the sequence of its "/"-separated segments: "./src/" is       *)
(* <<".", "src", "">>, "foo.go" is <<"foo.go">>.  Time is in seconds.      *)
(***************************************************************************)
EXTENDS Integers, Sequences, FiniteSets, TLC

VARIABLES
    revision,     \* which HandleEvent/Watch/main is running: "glob" or "path"
    patternList,  \* var patternList Patterns / pathList PathList
    recursive,    \* var recursive bool
    cmd,          \* var cmd []string
    delaySpec,    \* var delaySpec string
    fs,           \* the file system: node -> "none" | "file" | "dir"
    scope,        \* the nodes that change while the program runs
    list,         \* Watcher.list map[string]time.Time
    subs,         \* names subscribed through fsnotify Watch, not yet RemoveWatch'ed
    queue,        \* watcher.Event: events delivered by the source, not yet handled
    now,          \* time.Now(), seconds
    listMu,       \* Watcher.listMu: TRUE while HandleEvent (or a Watch that exits) holds it
    pc,           \* "start" | "loop" | "cmd" (inside cmd.Run) | "exited" (log.Fatal)
    last,         \* what the last step of main did (the log lines it wrote included)
    lastRun,      \* history: cleaned path -> time the command was last started for it
    fresh         \* history: names registered by Watch that no event has taken to the debounce gate since

vars == <<revision, patternList, recursive, cmd, delaySpec, fs, scope, list, subs,
          queue, now, listMu, pc, last, lastRun, fresh>>

config == <<revision, patternList, recursive, cmd, delaySpec, scope>>

-----------------------------------------------------------------------------
(* Bounds of the model *)

MaxTime == 3
MaxQueue == 1

-----------------------------------------------------------------------------
(* The file-system universe *)

Dot    == <<".">>
BarTxt == <<"bar.txt">>
FooGo  == <<"foo.go">>
MainGo == <<"main.go">>
Src    == <<"src">>
SrcA   == <<"src", "a.go">>
Build  == <<"build">>

\* every node, in lexical walk order (the order of filepath.Walk and of Glob)
NodeOrder == <<Dot, BarTxt, Build, FooGo, MainGo, Src, SrcA>>

Nodes == {NodeOrder[i] : i \in 1..Len(NodeOrder)}

\* what a node may be when it exists
Kinds(n) ==
    IF n = Dot \/ n = Src THEN {"dir"}
    ELSE IF n = Build THEN {"dir", "file"}
    ELSE {"file"}

Last(s) == s[Len(s)]

Front(s) == SubSeq(s, 1, Len(s) - 1)

\* filepath.Clean on the names of the universe: drop "." and empty segments
RECURSIVE DropDots(_)
DropDots(s) ==
    IF s = <<>> THEN <<>>
    ELSE IF Head(s) \in {".", ""} THEN DropDots(Tail(s))
    ELSE <<Head(s)>> \o DropDots(Tail(s))

Clean(name) ==
    LET c == DropDots(name) IN IF c = <<>> THEN Dot ELSE c

\* path.Dir: everything up to the last slash, cleaned
Dir(name) == Clean(Front(name))

\* the directory holding node n
Parent(n) == Dir(n)

Exists(f, name) == Clean(name) \in Nodes /\ f[Clean(name)] # "none"

\* func IsDir: a stat error is logged and false is returned
IsDir(f, name) == Clean(name) \in Nodes /\ f[Clean(name)] = "dir"

\* the entries of directory node d that exist, as nodes
Entries(f, d) ==
    {n \in Nodes : n # Dot /\ Parent(n) = d /\ f[n] # "none"}

RECURSIVE UnderDir(_, _)
\* n lies below directory node d
UnderDir(n, d) ==
    /\ n # Dot
    /\ n # d
    /\ (Parent(n) = d \/ UnderDir(Parent(n), d))

\* func SubDirs: filepath.Walk from the name as given; the root keeps its
\* spelling, everything below is filepath.Join'ed, that is cleaned
SubDirs(f, name) ==
    IF ~IsDir(f, name) THEN <<>>
    ELSE <<name>> \o
         SelectSeq(NodeOrder,
                   LAMBDA n : UnderDir(n, Clean(name)) /\ f[n] = "dir")

-----------------------------------------------------------------------------
(* Patterns and filepath.Glob *)

PatGo      == <<"*.go">>             \* *.go
PatSrcDir  == <<".", "src", "">>     \* ./src/
PatDefault == <<".", "">>            \* ./   (patternList.Set("./"))
PatFoo     == <<"foo.go">>           \* foo.go
PatBuild   == <<"build">>            \* build

HasMeta(p) == \E i \in 1..Len(p) : p[i] \in {"*", "*.go"}

\* filepath.Match of one segment against an entry name
Match(pat, seg) ==
    CASE pat = "*"    -> TRUE
      [] pat = "*.go" -> seg \in {"foo.go", "main.go", "a.go"}
      [] OTHER        -> pat = seg

\* filepath.Glob: a pattern without metacharacters is returned as given when
\* it exists; otherwise the entries of the pattern's directory that match
\* its last segment, joined (cleaned) and sorted
Glob(f, p) ==
    IF ~HasMeta(p)
    THEN IF Exists(f, p) THEN <<p>> ELSE <<>>
    ELSE IF ~IsDir(f, Dir(p)) THEN <<>>
    ELSE SelectSeq(NodeOrder,
                   LAMBDA n : n \in Entries(f, Dir(p)) /\ Match(Last(p), Last(n)))

-----------------------------------------------------------------------------
(* Watcher.Watch.  A watch state is [list, subs, fatal, fresh]: the map, the *)
(* subscriptions, whether log.Fatal ended the process, and the history of    *)
(* names registered.                                                         *)

\* time.Now().Add(-5 * time.Second)
TimeMachine == 5

Seed == now - TimeMachine

\* err := w.Watcher.Watch(file); log.Fatal(err); w.list[file] = Seed
Register(ws, f, file) ==
    IF ~Exists(f, file)
    THEN [ws EXCEPT !.fatal = TRUE]
    ELSE [ws EXCEPT !.subs = @ \cup {file},
                    !.list = (file :> Seed) @@ @,
                    !.fresh = @ \cup {file}]

RECURSIVE WatchLoop(_, _, _)
\* for _, file := range towatch { if already in list: return; subscribe }
WatchLoop(ws, f, towatch) ==
    IF towatch = <<>> \/ ws.fatal THEN ws
    ELSE IF Head(towatch) \in DOMAIN ws.list THEN ws
    ELSE WatchLoop(Register(ws, f, Head(towatch)), f, Tail(towatch))

\* part_000: a file brings its directory along
TowatchGlob(f, file) ==
    IF IsDir(f, file) THEN <<file>> ELSE <<file, Dir(file)>>

WatchGlob(ws, f, file) == WatchLoop(ws, f, TowatchGlob(f, file))

\* whenchange.go: the path alone
WatchPath(ws, f, path) == WatchLoop(ws, f, <<path>>)

Watch(ws, f, file) ==
    IF revision = "glob" THEN WatchGlob(ws, f, file) ELSE WatchPath(ws, f, file)

RECURSIVE WatchAll(_, _, _)
WatchAll(ws, f, names) ==
    IF names = <<>> \/ ws.fatal THEN ws
    ELSE WatchAll(Watch(ws, f, Head(names)), f, Tail(names))

RECURSIVE WatchMatches(_, _, _)
\* part_000 WatchPatterns, inner loop: Watch(fname), then its SubDirs
WatchMatches(ws, f, matches) ==
    IF matches = <<>> \/ ws.fatal THEN ws
    ELSE LET w1 == Watch(ws, f, Head(matches))
             w2 == IF recursive
                   THEN WatchAll(w1, f, SubDirs(f, Head(matches)))
                   ELSE w1
         IN  WatchMatches(w2, f, Tail(matches))

RECURSIVE WatchPatterns(_, _, _, _)
\* part_000 WatchPatterns: fGlob is the file system Glob reads, f the one the
\* registration that follows it finds
WatchPatterns(ws, fGlob, f, patterns) ==
    IF patterns = <<>> \/ ws.fatal THEN ws
    ELSE WatchPatterns(WatchMatches(ws, f, Glob(fGlob, Head(patterns))),
                       fGlob, f, Tail(patterns))

RECURSIVE WatchPathList(_, _, _)
\* whenchange.go main: Watch(f), then every SubDirs(f), whatever -r says
WatchPathList(ws, f, paths) ==
    IF paths = <<>> \/ ws.fatal THEN ws
    ELSE WatchPathList(
             WatchAll(Watch(ws, f, Head(paths)), f, SubDirs(f, Head(paths))),
             f, Tail(paths))

WatchState == [list |-> list, subs |-> subs, fatal |-> FALSE, fresh |-> fresh]

-----------------------------------------------------------------------------
(* Configuration: flag.Parse and the head of main *)

\* time.ParseDuration on the -delay values of the model, in seconds;
\* {} stands for the parse error
ParseDuration(spec) ==
    CASE spec = "2s" -> {2}
      [] spec = "5s" -> {5}
      [] spec = "7s" -> {7}
      [] OTHER       -> {}

\* delay, err = time.ParseDuration(delaySpec); if err != nil { delay = 5s }
DefaultDelay == 5

\* delay without the fallback: the zero Duration ParseDuration returns with its error
delayNoFallback ==
    IF ParseDuration(delaySpec) = {} THEN 0
    ELSE CHOOSE d \in ParseDuration(delaySpec) : TRUE

delay ==
    IF ParseDuration(delaySpec) = {} THEN DefaultDelay
    ELSE CHOOSE d \in ParseDuration(delaySpec) : TRUE

\* if len(patternList) < 1 { patternList.Set("./") }
DefaultPatterns(pl) == IF Len(pl) < 1 THEN <<PatDefault>> ELSE pl

\* a file system is a tree: what exists lies in a directory
TreeOk(f) ==
    /\ f[Dot] = "dir"
    /\ \A n \in Nodes \ {Dot} :
          f[n] # "none" => (f[n] \in Kinds(n) /\ f[Parent(n)] = "dir")

\* the file systems main may start in: the static nodes exist, the nodes in
\* scope may or may not, nothing else does
InitialFs(static, sc) ==
    {f \in [Nodes -> {"none", "file", "dir"}] :
        /\ TreeOk(f)
        /\ \A n \in Nodes \ sc : f[n] # "none" <=> n \in static}

Scenario(rev, pl, rec, c, spec, static, sc) ==
    [rev |-> rev, pl |-> pl, rec |-> rec, cmd |-> c, spec |-> spec,
     static |-> static, scope |-> sc]

\* the command lines and file systems the model is run on
Scenarios ==
    { Scenario("glob", <<PatGo>>, FALSE, <<"make">>, "2s", {Dot, MainGo}, {FooGo}),
      Scenario("glob", <<PatGo>>, FALSE, <<"make">>, "7s", {Dot, MainGo}, {FooGo}),
      Scenario("glob", <<PatGo>>, TRUE, <<"make">>, "7s", {Dot, FooGo}, {Dot, FooGo}),
      Scenario("glob", <<PatGo>>, FALSE, <<>>, "banana", {Dot, MainGo}, {FooGo, BarTxt}),
      Scenario("glob", <<PatSrcDir>>, TRUE, <<"make">>, "banana", {Dot, Src}, {SrcA}),
      Scenario("glob", <<>>, TRUE, <<"make">>, "2s", {Dot}, {Src}),
      Scenario("glob", <<>>, TRUE, <<"make">>, "2s", {Dot, Src}, {SrcA}),
      Scenario("glob", <<>>, FALSE, <<"make">>, "2s", {Dot}, {Src, SrcA}),
      Scenario("glob", <<PatBuild>>, FALSE, <<"make">>, "2s", {Dot}, {Build}),
      Scenario("path", <<PatSrcDir>>, TRUE, <<"make">>, "2s", {Dot, Src}, {SrcA}),
      Scenario("path", <<>>, FALSE, <<"make">>, "7s", {Dot, Src}, {FooGo}),
      Scenario("path", <<>>, TRUE, <<"make">>, "2s", {Dot}, {Src}),
      Scenario("path", <<PatFoo>>, TRUE, <<>>, "banana", {Dot}, {FooGo}) }

-----------------------------------------------------------------------------
(* The event source *)

NoEvent == [Name |-> <<>>, op |-> "none", during |-> {}]

\* history carried by an event: the path whose command was running when the
\* source delivered it ({} when none was)
During == IF pc = "cmd" THEN {last.path} ELSE {}

\* IsCreate / IsDelete; "modify" is every other operation
Ops == {"create", "modify", "delete"}

Watching(S, n) == {s \in S : Clean(s) = n}

\* the events a change of node n raises: one from the watch on its directory,
\* named <watch>/<entry>, and (not for a create) one from the watch on n
EventsFor(S, n, op) ==
    (IF n # Dot /\ Watching(S, Parent(n)) # {}
     THEN <<[Name |-> (CHOOSE s \in Watching(S, Parent(n)) : TRUE) \o <<Last(n)>>,
             op |-> op, during |-> During]>>
     ELSE <<>>)
    \o
    (IF op # "create" /\ Watching(S, n) # {}
     THEN <<[Name |-> CHOOSE s \in Watching(S, n) : TRUE, op |-> op,
             during |-> During]>>
     ELSE <<>>)

\* events beyond the buffer are dropped
Deliver(q, evs) == SubSeq(q \o evs, 1, IF Len(q \o evs) < MaxQueue
                                        THEN Len(q \o evs) ELSE MaxQueue)

Removable(f, n) == n # Dot /\ f[n] # "none" /\ Entries(f, n) = {}

Remove(f, gone) == [n \in Nodes |-> IF n \in gone THEN "none" ELSE f[n]]

RECURSIVE RemovalEvents(_, _)
RemovalEvents(S, gone) ==
    IF gone = {} THEN <<>>
    ELSE LET n == CHOOSE x \in gone : TRUE
         IN  EventsFor(S, n, "delete") \o RemovalEvents(S, gone \ {n})

-----------------------------------------------------------------------------
(* main *)

\* the record of a step of main: the event it handled, what it did with it,
\* the log lines it wrote and, for an event, the time since the command was
\* last started for its path ({} when it never was); flip changes with every
\* step of main
Report(step, ev, result, logs) ==
    [step   |-> step,
     ev     |-> [ev EXCEPT !.during = {}],
     path   |-> Clean(ev.Name),
     result |-> result,
     logs   |-> logs,
     since  |-> IF ev.op # "none" /\ Clean(ev.Name) \in DOMAIN lastRun
                THEN {now - lastRun[Clean(ev.Name)]} ELSE {},
     flip   |-> ~last.flip]

Init ==
    /\ \E sc \in Scenarios :
         /\ revision = sc.rev
         /\ patternList = sc.pl
         /\ recursive = sc.rec
         /\ cmd = sc.cmd
         /\ delaySpec = sc.spec
         /\ scope = sc.scope
         /\ fs \in InitialFs(sc.static, sc.scope)
    /\ list = <<>>
    /\ subs = {}
    /\ queue = <<>>
    /\ now = 0
    /\ listMu = FALSE
    /\ pc = "start"
    /\ lastRun = <<>>
    /\ fresh = {}
    /\ last = [step |-> "init", ev |-> NoEvent, path |-> Dot, result |-> "none",
               logs |-> {}, since |-> {}, flip |-> FALSE]

\* what a removal between two file-system calls of main can take away
GoneChoices == {{}} \cup {{n} : n \in {x \in scope : Removable(fs, x)}}

InScope(n) == n \in scope

\* main up to the dispatch loop: the default pattern, then the registration
Startup ==
    /\ pc = "start"
    /\ \E gone \in GoneChoices :
         LET pl == DefaultPatterns(patternList)
             f2 == Remove(fs, gone)
             ws == IF revision = "glob"
                   THEN WatchPatterns(WatchState, fs, f2, pl)
                   ELSE WatchPathList(WatchState, f2, pl)
         IN  /\ patternList' = pl
             /\ fs' = f2
             /\ list' = ws.list
             /\ subs' = ws.subs
             /\ fresh' = ws.fresh
             /\ pc' = IF ws.fatal THEN "exited" ELSE "loop"
             /\ listMu' = ws.fatal
             /\ last' = Report("startup", NoEvent,
                               IF ws.fatal THEN "fatal" ELSE "none",
                               (IF ws.fatal THEN {"fatal"} ELSE {}) \cup
                               (IF ParseDuration(delaySpec) = {}
                                THEN {"baddelay"} ELSE {}))
    /\ UNCHANGED <<revision, recursive, cmd, delaySpec, scope, queue, now, lastRun>>

\* TooFast that suppresses nothing
TooFastNever(wtime) == FALSE

\* TooFast with the boundary on the wrong side
TooFastInclusive(wtime) == now - wtime <= delay

\* now.Sub(wtime) < delay
TooFast(wtime) == now - wtime < delay

\* GateGlob without the "watching" test
GateGlobUnchecked(l, path) ==
    IF path \in DOMAIN l /\ TooFast(l[path]) THEN "toofast" ELSE "accept"

\* part_000: wtime, watching := watcher.list[path]; if !watching { return };
\* if now.Sub(wtime) < delay { return }
GateGlob(l, path) ==
    IF path \notin DOMAIN l THEN "untracked"
    ELSE IF TooFast(l[path]) THEN "toofast"
    ELSE "accept"

\* whenchange.go: if now.Sub(watcher.list[path]) < delay { return }; a path the
\* map does not hold reads as the zero time, whose distance from now is the
\* largest Duration: no delay is above it
GatePath(l, path) ==
    IF path \in DOMAIN l /\ TooFast(l[path]) THEN "toofast" ELSE "accept"

Gate(l, path) ==
    IF revision = "glob" THEN GateGlob(l, path) ELSE GatePath(l, path)

\* Stamp that forgets the assignment
StampForgotten(l, path) == l

\* watcher.list[path] = now
Stamp(l, path) == (path :> now) @@ l

\* HasCommand that takes an empty argument list for a command
HasCommandAlways == TRUE

\* if len(cmd) > 0
HasCommand == Len(cmd) > 0

\* the tail of HandleEvent, from the debounce gate on, with the map l and the
\* history fr that the head of HandleEvent left: an accepted event stamps the
\* path and starts the command (pc = "cmd" until cmd.Run returns) or finds
\* none to run
Debounce(ev, path, l, fr) ==
    LET verdict == Gate(l, path)
        fr2 == IF verdict # "untracked" THEN fr \ {path} ELSE fr
    IN  /\ fresh' = fr2
        /\ IF verdict = "untracked"
           THEN /\ list' = l
                /\ last' = Report("event", ev, "untracked", {})
                /\ UNCHANGED <<lastRun, pc, listMu>>
           ELSE IF verdict = "toofast"
           THEN /\ list' = l
                /\ last' = Report("event", ev, "toofast", {"toofast"})
                /\ UNCHANGED <<lastRun, pc, listMu>>
           ELSE /\ list' = Stamp(l, path)
                /\ IF HasCommand
                   THEN /\ pc' = "cmd"
                        /\ listMu' = TRUE
                        /\ lastRun' = (path :> now) @@ lastRun
                        /\ last' = Report("event", ev, "run", {"running"})
                   ELSE /\ pc' = "loop"
                        /\ listMu' = FALSE
                        /\ lastRun' = lastRun
                        /\ last' = Report("event", ev, "nocmd", {"nocmd"})

\* log.Fatal(err) inside Watch: the process exits, the deferred Unlock of
\* Watch never runs
Fatal(ev, ws) ==
    /\ pc' = "exited"
    /\ listMu' = TRUE
    /\ list' = ws.list
    /\ fresh' = ws.fresh
    /\ last' = Report("event", ev, "fatal", {"fatal"})
    /\ UNCHANGED lastRun

\* part_000 HandleEvent, a create event: WatchPatterns and return
HandleCreateGlob(ev) ==
    \E gone \in GoneChoices :
      LET f2 == Remove(fs, gone)
          ws == WatchPatterns(WatchState, fs, f2, patternList)
      IN  /\ fs' = f2
          /\ subs' = ws.subs
          /\ queue' = Deliver(Tail(queue), RemovalEvents(subs, gone))
          /\ IF ws.fatal
             THEN Fatal(ev, ws)
             ELSE /\ list' = ws.list
                  /\ fresh' = ws.fresh
                  /\ last' = Report("event", ev, "create", {})
                  /\ UNCHANGED <<lastRun, pc, listMu>>

\* part_000 HandleEvent, any other event: the debounce gate
HandleChangeGlob(ev) ==
    /\ queue' = Tail(queue)
    /\ UNCHANGED <<fs, subs>>
    /\ Debounce(ev, Clean(ev.Name), list, fresh)

\* HandleEventGlob without the create branch: every event goes to the gate
HandleEventGlobAllGated(ev) == HandleChangeGlob(ev)

HandleEventGlob(ev) ==
    IF ev.op = "create" THEN HandleCreateGlob(ev) ELSE HandleChangeGlob(ev)

\* watcher.RemoveWatch(path)
RemoveWatch(S, path) == S \ {path}

\* whenchange.go HandleEvent: a created directory is watched, a deleted path
\* loses its subscription, and every event goes on to the debounce gate
HandleEventPath(ev) ==
    LET path == Clean(ev.Name) IN
    \E gone \in IF ev.op = "create" THEN GoneChoices ELSE {{}} :
      LET f2 == Remove(fs, gone)
          w1 == IF ev.op = "create" /\ IsDir(fs, path)
                THEN Watch(WatchState, f2, path)
                ELSE WatchState
      IN  /\ fs' = f2
          /\ subs' = IF ev.op = "delete" THEN RemoveWatch(w1.subs, path)
                     ELSE w1.subs
          /\ queue' = Deliver(Tail(queue), RemovalEvents(subs, gone))
          /\ IF w1.fatal
             THEN Fatal(ev, w1)
             ELSE Debounce(ev, path, w1.list, w1.fresh)

HandleEvent(ev) ==
    IF revision = "glob" THEN HandleEventGlob(ev) ELSE HandleEventPath(ev)

\* Dispatch that takes the next event while cmd.Run has not returned
DispatchWhileRunning ==
    /\ pc \in {"loop", "cmd"}
    /\ queue # <<>>
    /\ HandleEvent(Head(queue))
    /\ UNCHANGED <<config, now>>

\* case ev := <-watcher.Event: HandleEvent(ev)
Dispatch ==
    /\ pc = "loop"
    /\ queue # <<>>
    /\ ~listMu
    /\ HandleEvent(Head(queue))
    /\ UNCHANGED <<config, now>>

\* case err := <-watcher.Error: HandleError(err)
HandleError ==
    /\ pc = "loop"
    /\ last' = Report("error", NoEvent, "none", {"error"})
    /\ UNCHANGED <<config, fs, list, subs, queue, now, listMu, pc, lastRun, fresh>>

\* CommandExit that treats a command error as fatal
CommandExitFatal ==
    /\ pc = "cmd"
    /\ \E err \in {"nil", "exit", "spawn"} :
         /\ last' = [last EXCEPT !.step = "cmdexit", !.result = err,
                                 !.logs = {"done"}, !.flip = ~@]
         /\ pc' = IF err = "nil" THEN "loop" ELSE "exited"
    /\ listMu' = FALSE
    /\ UNCHANGED <<config, fs, list, subs, queue, now, lastRun, fresh>>

\* cmd.Run returns inside HandleEvent: nil, a non-zero exit or a spawn failure
CommandExit ==
    /\ pc = "cmd"
    /\ \E err \in {"nil", "exit", "spawn"} :
         last' = [last EXCEPT !.step = "cmdexit",
                              !.result = err,
                              !.logs = IF err = "nil" THEN {"done"}
                                       ELSE {"cmderror", "done"},
                              !.flip = ~@]
    /\ pc' = "loop"
    /\ listMu' = FALSE
    /\ UNCHANGED <<config, fs, list, subs, queue, now, lastRun, fresh>>

-----------------------------------------------------------------------------
(* The environment: the clock and the file system under the watches *)

Tick ==
    /\ pc \in {"loop", "cmd"}
    /\ now < MaxTime
    /\ now' = now + 1
    /\ UNCHANGED <<config, fs, list, subs, queue, listMu, pc, last, lastRun, fresh>>

Running == pc \in {"loop", "cmd"}

FsCreate ==
    /\ Running
    /\ \E n \in Nodes \ {Dot} : \E k \in Kinds(n) :
         /\ InScope(n)
         /\ fs[n] = "none"
         /\ fs[Parent(n)] = "dir"
         /\ fs' = [fs EXCEPT ![n] = k]
         /\ queue' = Deliver(queue, EventsFor(subs, n, "create"))
    /\ UNCHANGED <<config, list, subs, now, listMu, pc, last, lastRun, fresh>>

FsModify ==
    /\ Running
    /\ \E n \in Nodes :
         /\ InScope(n)
         /\ fs[n] # "none"
         /\ queue' = Deliver(queue, EventsFor(subs, n, "modify"))
    /\ UNCHANGED <<config, fs, list, subs, now, listMu, pc, last, lastRun, fresh>>

FsRemove ==
    /\ Running
    /\ \E n \in Nodes :
         /\ InScope(n)
         /\ Removable(fs, n)
         /\ fs' = Remove(fs, {n})
         /\ queue' = Deliver(queue, EventsFor(subs, n, "delete"))
    /\ UNCHANGED <<config, list, subs, now, listMu, pc, last, lastRun, fresh>>

Next ==
    \/ Startup
    \/ Dispatch
    \/ HandleError
    \/ CommandExit
    \/ Tick
    \/ FsCreate
    \/ FsModify
    \/ FsRemove

Spec == Init /\ [][Next]_vars

-----------------------------------------------------------------------------
(* Properties *)

\* a step of main that handled an event
Handled == last'.flip # last.flip /\ last'.step = "event"

\* C1. Debounce: once the command was started for path P at t1, a non-create
\* event on P handled at t2 is suppressed when t2 - t1 < delay and starts the
\* command again when t2 - t1 >= delay (lastRun holds the latest t1).
C1_Debounce ==
    [][(Handled /\ last'.ev.op # "create" /\ last'.path \in DOMAIN lastRun) =>
         /\ (now - lastRun[last'.path] < delay => last'.result = "toofast")
         /\ (now - lastRun[last'.path] >= delay => last'.result = "run")]_vars

\* an event accepted exactly delay after the previous run for its path
C1_Witness ==
    /\ last.step = "event"
    /\ last.ev.op = "modify"
    /\ last.result = "run"
    /\ last.since = {delay}

\* C2. First change: the first non-create event handled for a path after Watch
\* registered it starts the command, whatever the delay.
C2_FirstChange ==
    [][(Handled /\ last'.ev.op # "create" /\ last'.path \in fresh /\ Len(cmd) > 0) =>
         last'.result = "run"]_vars

C5_Rediscovery ==
    [][(Handled /\ revision = "glob" /\ patternList = <<PatGo>> /\ ~recursive) =>
         /\ (last'.ev.op = "create" /\ last'.path = FooGo /\ fs'[FooGo] = "file" =>
               FooGo \in DOMAIN list' /\ FooGo \in subs')
         /\ (/\ last.step = "event" /\ last.ev.op = "create" /\ last.path = FooGo
              /\ FooGo \in fresh
              /\ last'.ev.op = "modify" /\ last'.path = FooGo /\ HasCommand
              => last'.result = "run")
         /\ (last'.path = BarTxt =>
               /\ BarTxt \notin DOMAIN list'
               /\ BarTxt \notin subs'
               /\ last'.result \notin {"run", "nocmd"})]_vars

\* C6. With the directory ./src/ as the watch path and -r on, a non-create event
\* for a file below it starts the command unless the command was started for
\* the same path less than delay before.
C6_DirectoryWatch ==
    [][(Handled /\ patternList = <<PatSrcDir>> /\ recursive /\ Len(cmd) > 0
          /\ last'.ev.op # "create" /\ UnderDir(last'.path, Src)
          /\ ~(last'.path \in DOMAIN lastRun /\ now - lastRun[last'.path] < delay)) =>
         last'.result = "run"]_vars

\* C7. After a delete event for a tracked path the path is no key of the map
\* and holds no subscription.
C7_RemovalUnregisters ==
    [][(Handled /\ last'.ev.op = "delete" /\ last'.path \in DOMAIN list) =>
         (last'.path \notin DOMAIN list' /\ last'.path \notin subs')]_vars

\* C8. In every state main can be in, Watch(P) called twice leaves P in the map
\* with a subscription (and, in part_000, the directory of a file P too), and
\* the second call changes nothing.
C8_Idempotent ==
    pc \in {"loop", "cmd"} =>
      \A P \in Nodes :
        LET w1 == Watch(WatchState, fs, P)
            w2 == Watch(w1, fs, P)
        IN  ~w1.fatal =>
              /\ w2 = w1
              /\ P \in DOMAIN w1.list
              /\ P \in w1.subs
              /\ (revision = "glob" /\ fs[P] = "file" =>
                    Dir(P) \in DOMAIN w1.list /\ Dir(P) \in w1.subs)

\* C9. Once the dispatch loop runs, nothing ends the process: log.Fatal is
\* reached during the registration of main only.
C9_OnlySetupFatal == pc = "exited" => last.step = "startup"

\* C10. Whatever cmd.Run returns (nil, a non-zero exit, a spawn failure), the
\* map and the subscriptions are those the accepted event left and main is back
\* in its loop.
C10_CommandErrorFrame ==
    [][(pc = "cmd" /\ pc' # "cmd") =>
         (pc' = "loop" /\ list' = list /\ subs' = subs /\ queue' = queue)]_vars

\* a command that failed to spawn, with main back in its loop
C10_Witness ==
    /\ last.step = "cmdexit"
    /\ last.result = "spawn"
    /\ "cmderror" \in last.logs
    /\ pc = "loop"

\* the verdict of the debounce gate on the event a step of main handles, read
\* off the state before the step
Accepted ==
    LET p == last'.path
        ev == last'.ev
    IN  IF revision = "glob"
        THEN ev.op # "create" /\ p \in DOMAIN list /\ ~TooFast(list[p])
        ELSE IF p \in DOMAIN list THEN ~TooFast(list[p])
             ELSE (ev.op = "create" /\ IsDir(fs, p)) => ~TooFast(Seed)

\* C11. With no command arguments no step starts a process; an event that
\* passes the debounce gate logs "No command to run." and an event that is
\* suppressed, untracked or routed to registration logs neither line.
C11_NoCommand ==
    [][Len(cmd) = 0 =>
         /\ pc' # "cmd"
         /\ lastRun' = lastRun
         /\ (Handled /\ last'.result # "fatal" =>
               /\ "running" \notin last'.logs
               /\ ("nocmd" \in last'.logs <=> Accepted))]_vars

\* an accepted event with nothing to run, and main back at its select
C11_Witness ==
    /\ Len(cmd) = 0
    /\ last.step = "event"
    /\ last.result = "nocmd"
    /\ "nocmd" \in last.logs
    /\ pc = "loop"

\* the window a -d string stands for
Window ==
    IF delaySpec = "2s" THEN 2 ELSE IF delaySpec = "7s" THEN 7 ELSE 5

\* C12. A -d string that does not parse leaves a window of exactly 5 seconds
\* for every debounce decision, and a parsed one its value: an event on a
\* tracked path is suppressed exactly when it comes less than the window after
\* the stored time; the registration of main ends in the dispatch loop when
\* every listed path exists.
C12_DelayFallback ==
    [][/\ (Handled /\ last'.ev.op # "create" /\ last'.path \in DOMAIN list) =>
            (last'.result = "toofast" <=> now - list[last'.path] < Window)
       /\ (/\ pc = "start" /\ pc' # "start" /\ fs' = fs
            /\ (revision = "path" =>
                   \A i \in 1..Len(patternList') : Exists(fs, patternList'[i]))
            => /\ pc' = "loop"
               /\ ("baddelay" \in last'.logs <=> delaySpec = "banana"))]_vars

\* -d banana: an event 2 to 4 seconds after the stored time is suppressed
C12_Witness ==
    /\ delaySpec = "banana"
    /\ last.step = "event"
    /\ last.result = "toofast"
    /\ last.path \in DOMAIN list
    /\ now - list[last.path] \in 2..4

\* C13. An event on P that the source delivered while the command started for
\* P was running starts no further command when it is handled, however long
\* the command ran.
C13_NoRetrigger ==
    [][(Handled /\ last'.ev.op # "create" /\ last'.path \in Head(queue).during) =>
         last'.result # "run"]_vars

C16_RejectedFrame ==
    [][(Handled /\ last'.ev.op # "create"
          /\ last'.result \in {"toofast", "untracked"}) =>
         (list' = list /\ subs' = subs /\ pc' = pc /\ lastRun' = lastRun)]_vars

\* C17. One command at a time, and nothing else while it runs: an event is
\* only handled with main at its select, and from the start of cmd.Run to its
\* return the map, the subscriptions and the run history stay and the only
\* step of main is that return.
C17_Synchronous ==
    [][/\ (Handled => pc = "loop")
       /\ (last'.step = "error" /\ last'.flip # last.flip => pc = "loop")
       /\ (pc = "cmd" =>
              /\ list' = list /\ subs' = subs /\ lastRun' = lastRun
              /\ (last' # last => last'.step = "cmdexit" /\ pc' = "loop"))]_vars

\* the command is running, time has passed since it started and an event waits
C17_Witness ==
    /\ pc = "cmd"
    /\ queue # <<>>
    /\ last.path \in DOMAIN lastRun
    /\ now > lastRun[last.path]

\* C18. Watch(f) for a file f leaves f and path.Dir(f) in the map, each with a
\* subscription, whatever the map held before; so in every state of the
\* running program a tracked file has its directory tracked.
C18_FileImpliesDir ==
    pc \in {"loop", "cmd"} =>
      /\ \A p \in DOMAIN list :
            (Clean(p) \in Nodes /\ fs[Clean(p)] = "file") =>
               (Dir(p) \in DOMAIN list /\ Dir(p) \in subs)
      /\ \A f \in Nodes :
            LET w == Watch(WatchState, fs, f)
            IN  (fs[f] = "file" /\ ~w.fatal) =>
                  /\ f \in DOMAIN w.list /\ f \in w.subs
                  /\ Dir(f) \in DOMAIN w.list /\ Dir(f) \in w.subs

\* a step of main that resolves what to watch and survives it: the
\* registration of main, or the handling of a create event
Resolved ==
    \/ pc = "start" /\ pc' = "loop"
    \/ Handled /\ last'.ev.op = "create" /\ last'.result # "fatal"

\* the names the patterns stand for when the step resolves them
Matches ==
    UNION {{Glob(fs, patternList'[i])[j] : j \in 1..Len(Glob(fs, patternList'[i]))} :
             i \in 1..Len(patternList')}

\* the directories below a match that is a directory
Below == {n \in Nodes : fs'[n] = "dir" /\
                          \E m \in Matches : IsDir(fs', m) /\ UnderDir(n, Clean(m))}

\* C19. What a resolution adds to the map is a match, the directory of a match
\* that is a file and, with -r only, a directory below a match that is a
\* directory; with -r it adds every such directory.  Without -r a directory
\* created in a watched directory is added only when it is a match.
C19_RecursiveFlag ==
    [][Resolved =>
         /\ (DOMAIN list' \ DOMAIN list) \subseteq
               (Matches \cup {Dir(m) : m \in {x \in Matches : ~IsDir(fs', x)}}
                        \cup (IF recursive THEN Below ELSE {}))
         /\ (recursive => Below \subseteq DOMAIN list')]_vars

\* C20. While the program runs the keys of the map are the names that hold a
\* subscription: no key without one, no subscription without a key.
C20_RegistryAgrees == pc \in {"loop", "cmd"} => DOMAIN list = subs

====
